---- MODULE Spec2Model ----
(***************************************************************************)
(* A model of libpysat/data/spectra.py: the Spectra table (a pandas        *)
(* DataFrame subclass) with its tolerance indexer, its two loaders, its    *)
(* two column views and its linear continuum correction.                   *)
(*                                                                         *)
(* Wavelengths and tolerances are real numbers in the program; here they   *)
(* are integers counting hundredths (750.49 is 75049, a tolerance of .5 is *)
(* 50).  Cell values are exact fractions <<num, den>>; a denominator of 0  *)
(* stands for numpy's nan (0/0) and inf (x/0).  Floating-point rounding is *)
(* not modelled.                                                           *)
(*                                                                         *)
(* Objects live in a heap: tables[i] is the i-th table ever built and      *)
(* indexers[i] the SpectrumLocIndexer that table's __init__ created.  A    *)
(* table refers to "its" indexer by id (field get), so that two tables     *)
(* holding the same indexer object are visible as such.                    *)
(*                                                                         *)
(* The file uses three names it never binds: _Spectra_DataFrame (lines 47  *)
(* and 77), Spectrum (lines 69 and 124) and io_moon_minerology_mapper      *)
(* (line 94).  They are read as the table class itself, the row type and   *)
(* the cube reader.  The indexer classes (_idx) and the numeric routine    *)
(* linear_correction are imported from modules outside this file.          *)
(***************************************************************************)
EXTENDS Integers, Sequences, FiniteSets, TLC

VARIABLES tables, indexers, ghost, res

vars == <<tables, indexers, ghost, res>>

-----------------------------------------------------------------------------
(* Bounds of the model *)

MaxTables == 3      \* tables ever built in one behaviour
MaxDim == 2         \* raster width, height and band count of a cube
MaxVal == 3         \* largest cell value of a frame handed to linear_correction

(* Program constants, in hundredths *)

InitDefaultTol == 0         \* __init__(..., tolerance=0)
GetterDefaultTol == 50      \* tolerance getter: self._get._tolerance = .5
M3DefaultTol == 200         \* from_m3(cls, path_to_file, tolerance=2)
ProfilerDefaultTol == 100   \* from_spectral_profiler(cls, f, tolerance=1)

NoArg == -1                 \* "argument omitted" in a call

-----------------------------------------------------------------------------
(* Labels, values, small helpers *)

WL(x) == [kind |-> "wl", val |-> x]     \* a real-valued column label
MD(n) == [kind |-> "md", val |-> n]     \* a named (string) column label

Abs(x) == IF x < 0 THEN -x ELSE x

RECURSIVE Gcd(_, _)
Gcd(a, b) == IF b = 0 THEN a ELSE Gcd(b, a % b)

Sign(x) == IF x > 0 THEN 1 ELSE IF x < 0 THEN -1 ELSE 0

\* n/d as numpy computes it, in lowest terms: x/0 is inf, 0/0 is nan
Frac(n, d) ==
    IF d = 0 THEN <<Sign(n), 0>>
    ELSE LET g == Gcd(Abs(n), Abs(d))
         IN  <<Sign(d) * (n \div g), Abs(d) \div g>>

Num(v) == Frac(v, 1)
NaN == <<0, 0>>
One == <<1, 1>>

Range(s) == {s[i] : i \in DOMAIN s}

\* a sequence of numbers as wavelength labels, and as cell values
WLs(s) == [i \in DOMAIN s |-> WL(s[i])]

Nums(s) == [i \in DOMAIN s |-> Num(s[i])]

\* position of label l in the sequence cols, 0 when absent
PosOf(cols, l) ==
    IF \E i \in DOMAIN cols : cols[i] = l
    THEN CHOOSE i \in DOMAIN cols : cols[i] = l /\ \A j \in 1..(i-1) : cols[j] # l
    ELSE 0

-----------------------------------------------------------------------------
(* pandas: frames (the DataFrame part of a table) *)

\* A frame is [columns, index, nlevels, data]: column labels, row keys (each a
\* tuple with one component per index level), and data[row][column].
Frame(cols, idx, nl, dat) ==
    [columns |-> cols, index |-> idx, nlevels |-> nl, data |-> dat]

\* isinstance(self.index, pd.MultiIndex)
IsMultiIndex(t) == t.nlevels >= 2

ByVal(a, b) == a.val < b.val

\* pandas Index.difference: the labels of cols not in other, sorted when the
\* labels can be compared with each other (all names or all numbers)
Difference(cols, other) ==
    LET kept == SelectSeq(cols, LAMBDA c : c \notin Range(other))
    IN  IF \A i, j \in DOMAIN kept : kept[i].kind = kept[j].kind
        THEN SortSeq(kept, ByVal)
        ELSE kept

\* the frame restricted to the columns at positions pos (a sequence)
TakeColumns(f, pos) ==
    Frame([i \in DOMAIN pos |-> f.columns[pos[i]]], f.index, f.nlevels,
          [r \in DOMAIN f.data |-> [i \in DOMAIN pos |-> f.data[r][pos[i]]]])

RowPos(idx, key) ==
    IF \E i \in DOMAIN idx : idx[i] = key
    THEN CHOOSE i \in DOMAIN idx : idx[i] = key
    ELSE 0

\* pd.DataFrame(frame, index=idx, columns=cols): the frame reindexed on both
\* axes, a label the frame does not have giving nan cells
ReindexFrame(f, idx, cols) ==
    Frame(cols, idx, 1,
          [r \in DOMAIN idx |->
              [c \in DOMAIN cols |->
                  IF RowPos(f.index, idx[r]) # 0 /\ PosOf(f.columns, cols[c]) # 0
                  THEN f.data[RowPos(f.index, idx[r])][PosOf(f.columns, cols[c])]
                  ELSE NaN]])

-----------------------------------------------------------------------------
(* Spectra.__init__, _metadata, _constructor *)

\* Spectra.__init__(frame, wavelengths=wl, metadata=md, tolerance=tol) building
\* the table with heap id `id`; tol = NoArg is the omitted argument
EffectiveTol(tol) == IF tol = NoArg THEN InitDefaultTol ELSE tol

\* a slip: without a metadata argument, every column taken as metadata
SpectraInitAllColumns(f, wl, md, id) ==
    [columns |-> f.columns, index |-> f.index, nlevels |-> f.nlevels,
     data |-> f.data,
     iget |-> id,
     get |-> id,
     wavelengths |-> wl,
     metadata |-> IF md # <<>> THEN md ELSE f.columns]

SpectraInit(f, wl, md, id) ==
    [columns |-> f.columns, index |-> f.index, nlevels |-> f.nlevels,
     data |-> f.data,
     iget |-> id,
     get |-> id,
     wavelengths |-> wl,
     metadata |-> IF md # <<>> THEN md ELSE Difference(f.columns, wl)]

\* the SpectrumLocIndexer built by __init__ of table `id`
NewIndexer(id, tol) == [obj |-> id, hasTol |-> TRUE, tol |-> EffectiveTol(tol)]

\* a slip: 'wavelengths' left out of _metadata
FinalizeWithoutWavelengths(new, src) ==
    [new EXCEPT !.get = src.get, !.iget = src.iget, !.metadata = src.metadata]

\* the attributes pandas copies, by reference, from the source of an operation
\* to its result: _metadata = ['_get', '_iget', 'wavelengths', 'metadata']
Finalize(new, src) ==
    [new EXCEPT !.get = src.get, !.iget = src.iget,
                !.wavelengths = src.wavelengths, !.metadata = src.metadata]

\* self._constructor(frame).__finalize__(src): the result of a rank-preserving
\* pandas operation on src
Derived(f, src, id) == Finalize(SpectraInit(f, <<>>, <<>>, id), src)

-----------------------------------------------------------------------------
(* The tolerance locator (libpysat/data/_index.py, not among the sources) *)

\* positions of the real-valued columns within tol of the request r
Candidates(cols, r, tol) ==
    {i \in DOMAIN cols : cols[i].kind = "wl" /\ Abs(cols[i].val - r) <= tol}

Nearest(cols, r, C) ==
    {i \in C : \A j \in C : Abs(cols[i].val - r) <= Abs(cols[j].val - r)}

\* the outcomes of locating one key among cols: a position, or 0 for a lookup
\* error.  A name matches exactly.  A number matches the one label within tol;
\* with several labels within tol the engine's policy decides: a nearest
\* label, or a lookup error.
LocateOne(cols, key, tol) ==
    IF key.kind = "md" THEN {PosOf(cols, key)}
    ELSE LET C == Candidates(cols, key.val, tol)
         IN  IF C = {} THEN {0}
             ELSE IF Cardinality(C) = 1 THEN C
             ELSE Nearest(cols, key.val, C) \cup {0}

\* the outcomes of locating a list of keys: one position sequence per way of
\* locating every key
LocateList(cols, keys, tol) ==
    {p \in [DOMAIN keys -> 0..Len(cols)] :
        \A i \in DOMAIN keys : p[i] \in LocateOne(cols, keys[i], tol)}

\* a key of `arity` parts fits a table with arity - 1 row-index levels
ArityFits(arity, obj) == arity = obj.nlevels + 1

-----------------------------------------------------------------------------
(* Exact arithmetic on cell values; <<0, 0>> absorbs: it stands for any     *)
(* value that is not a finite number (nan, inf)                             *)

Finite(a) == a[2] # 0

FAdd(a, b) == IF Finite(a) /\ Finite(b)
              THEN Frac(a[1] * b[2] + b[1] * a[2], a[2] * b[2]) ELSE NaN
FSub(a, b) == IF Finite(a) /\ Finite(b)
              THEN Frac(a[1] * b[2] - b[1] * a[2], a[2] * b[2]) ELSE NaN
FMul(a, b) == IF Finite(a) /\ Finite(b)
              THEN Frac(a[1] * b[1], a[2] * b[2]) ELSE NaN
FDiv(a, b) == IF Finite(a) /\ Finite(b) /\ b[1] # 0
              THEN Frac(a[1] * b[2], a[2] * b[1]) ELSE NaN

-----------------------------------------------------------------------------
(* The record of what each table was built from, and of the last call      *)

NoSnap == [wavelengths |-> <<>>, metadata |-> <<>>, tol |-> 0,
           index |-> <<>>, columns |-> <<>>, data |-> <<>>]

\* what a caller reads off table t of heap tb with indexers ixs
Snap(tb, ixs, t) ==
    [wavelengths |-> tb[t].wavelengths, metadata |-> tb[t].metadata,
     tol |-> ixs[tb[t].get].tol,
     index |-> tb[t].index, columns |-> tb[t].columns, data |-> tb[t].data]

Made(op, src, tolArg, stored, snap, inp) ==
    [op |-> op, src |-> src, tolArg |-> tolArg, stored |-> stored,
     assigned |-> FALSE, snap |-> snap, inp |-> inp]

NoLabel == MD(0)

Result(op, tab, key, ok, label, vals, new) ==
    [op |-> op, tab |-> tab, key |-> key, ok |-> ok, label |-> label,
     vals |-> vals, new |-> new]

-----------------------------------------------------------------------------
(* The tolerance property *)

\* getter: if not hasattr(self._get, '_tolerance'): self._get._tolerance = .5
TouchTol(ix) ==
    IF ~ix.hasTol THEN [ix EXCEPT !.hasTol = TRUE, !.tol = GetterDefaultTol]
    ELSE ix

\* getter: return self._get._tolerance
ReadTol(ix) == TouchTol(ix).tol

\* setter: self._get._tolerance = val
WriteTol(ix, val) == [ix EXCEPT !.hasTol = TRUE, !.tol = val]

ReadTolerance(t) ==
    /\ t \in DOMAIN tables
    /\ indexers' = [indexers EXCEPT ![tables[t].get] = TouchTol(@)]
    /\ res' = Result("tolerance", t, ReadTol(indexers[tables[t].get]), TRUE,
                     NoLabel, <<>>, 0)
    /\ UNCHANGED <<tables, ghost>>

SetTolerance(t, val) ==
    /\ t \in DOMAIN tables
    /\ indexers' = [indexers EXCEPT ![tables[t].get] = WriteTol(@, val)]
    /\ ghost' = [ghost EXCEPT ![t].stored = val, ![t].assigned = TRUE]
    /\ res' = Result("set_tolerance", t, val, TRUE, NoLabel, <<>>, 0)
    /\ UNCHANGED tables

-----------------------------------------------------------------------------
(* Direct construction: Spectra(frame, wavelengths=..., metadata=...,      *)
(* tolerance=...)                                                           *)

\* the heap after __init__ has built table `new` with its indexer
Alloc(new, ix, made) ==
    /\ tables' = Append(tables, new)
    /\ indexers' = Append(indexers, ix)
    /\ ghost' = Append(ghost, made)

NextId == Len(tables) + 1

\* a behaviour follows one table built from data (by the constructor or a
\* loader) and the tables derived from it
RoomForRoot == tables = <<>>

Construct(f, wl, md, tol) ==
    /\ RoomForRoot
    /\ Alloc(SpectraInit(f, wl, md, NextId), NewIndexer(NextId, tol),
             Made("init", 0, tol, EffectiveTol(tol), NoSnap, [md |-> md]))
    /\ res' = Result("init", NextId, 0, TRUE, NoLabel, <<>>, NextId)

-----------------------------------------------------------------------------
(* Element access: Spectra.__getitem__, and the two views built on it      *)

\* a slip: the two-part key whatever the row index
KeyArityFlat(self) == 2

\* the number of parts of the key __getitem__ hands to the indexer:
\* self.get[:, :, key] for a MultiIndex, self.get[:, key] otherwise
KeyArity(self) == IF IsMultiIndex(self) THEN 3 ELSE 2

\* the table an indexer fetches from: the one it was built for (obj=self)
ObjOf(self) == tables[indexers[self.get].obj]

\* table[key] for one real-valued key: a column, or a lookup error
GetItem(t, r) ==
    /\ t \in DOMAIN tables
    /\ LET self == tables[t]
           obj == ObjOf(self)
           tol == indexers[self.get].tol
       IN  \E p \in (IF ArityFits(KeyArity(self), obj)
                     THEN LocateOne(obj.columns, WL(r), tol) ELSE {0}) :
              res' = IF p = 0
                     THEN Result("getitem", t, r, FALSE, NoLabel, <<>>, 0)
                     ELSE Result("getitem", t, r, TRUE, obj.columns[p],
                                 [i \in DOMAIN obj.data |-> obj.data[i][p]], 0)
    /\ UNCHANGED <<tables, indexers, ghost>>

\* table[keys] for a list of labels: a new table, or a lookup error
GetItemList(op, t, keys) ==
    /\ t \in DOMAIN tables
    /\ Len(tables) < MaxTables
    /\ LET self == tables[t]
           obj == ObjOf(self)
           tol == indexers[self.get].tol
       IN  \E p \in (IF ArityFits(KeyArity(self), obj)
                     THEN LocateList(obj.columns, keys, tol)
                     ELSE {<<0>>}) :
              IF \E i \in DOMAIN p : p[i] = 0
              THEN /\ res' = Result(op, t, 0, FALSE, NoLabel, <<>>, 0)
                   /\ UNCHANGED <<tables, indexers, ghost>>
              ELSE /\ Alloc(Derived(TakeColumns(obj, p), obj, NextId),
                            NewIndexer(NextId, NoArg),
                            Made(op, t, NoArg, indexers[self.get].tol,
                                 Snap(tables, indexers, t), <<>>))
                   /\ res' = Result(op, t, 0, TRUE, NoLabel, <<>>, NextId)

\* property meta: return self[self.metadata]
GetMeta(t) == GetItemList("meta", t, tables[t].metadata)

\* property spectra: return self[self.wavelengths]
GetSpectra(t) == GetItemList("spectra", t, tables[t].wavelengths)

-----------------------------------------------------------------------------
(* Spectra.linear_correction *)

\* a slip: the anchors at the smallest and the largest wavelength
BandsByValue(wv) ==
    IF wv = <<>> THEN <<1, 0>>
    ELSE <<CHOOSE i \in DOMAIN wv : \A j \in DOMAIN wv : wv[i] <= wv[j],
           CHOOSE i \in DOMAIN wv : \A j \in DOMAIN wv : wv[i] >= wv[j]>>

\* bands = tuple([0, len(wavelengths)-1]), as positions counted from 1
Bands(wv) == <<1, Len(wv)>>

\* libpysat.utils.utils.linear_correction(bands, ref, wv), not among the
\* sources: the spectrum ref divided by the straight line through
\* (wv[bands[0]], ref[bands[0]]) and (wv[bands[1]], ref[bands[1]])
LinCorr(bands, ref, wv) ==
    LET y1 == ref[bands[1]]
        y2 == ref[bands[2]]
        m == FDiv(FSub(y2, y1), Num(wv[bands[2]] - wv[bands[1]]))
        b == FSub(y1, FMul(m, Num(wv[bands[1]])))
    IN  [i \in DOMAIN ref |-> FDiv(ref[i], FAdd(FMul(m, Num(wv[i])), b))]

\* row[wavelengths].__array__(): the cells of one row under the wavelength
\* labels, in the order of the labels
RowSpectrum(self, r) ==
    [i \in DOMAIN self.wavelengths |->
        self.data[r][PosOf(self.columns, self.wavelengths[i])]]

\* data = self.apply(lincorr, axis=1): one Spectrum(corr, index=wavelengths)
\* per row, in row order
CorrectedFrame(self) ==
    LET wv == [i \in DOMAIN self.wavelengths |-> self.wavelengths[i].val]
    IN  Frame(self.wavelengths, self.index, self.nlevels,
              [r \in DOMAIN self.data |->
                  LinCorr(Bands(wv), RowSpectrum(self, r), wv)])

\* row[wavelengths] raises for a label the row does not have, and the
\* correction routine indexes ref[0] of an empty spectrum
CanCorrect(self) ==
    /\ Len(self.wavelengths) >= 1
    /\ \A i \in DOMAIN self.wavelengths :
          PosOf(self.columns, self.wavelengths[i]) # 0

LinearCorrection(t) ==
    /\ t \in DOMAIN tables
    /\ Len(tables) < MaxTables
    /\ LET self == tables[t]
           ix == TouchTol(indexers[self.get])
       IN  IF ~CanCorrect(self)
           THEN /\ res' = Result("linear_correction", t, 0, FALSE, NoLabel, <<>>, 0)
                /\ UNCHANGED <<tables, indexers, ghost>>
           ELSE \* Spectra(data, wavelengths=self.wavelengths,
                \*         tolerance=self.tolerance)
                /\ tables' = Append(tables,
                       SpectraInit(CorrectedFrame(self), self.wavelengths,
                                   <<>>, NextId))
                /\ indexers' = Append([indexers EXCEPT ![self.get] = ix],
                                      NewIndexer(NextId, ix.tol))
                /\ ghost' = Append(ghost,
                       Made("linear_correction", t, ix.tol, ix.tol,
                            Snap(tables, indexers, t), <<>>))
                /\ res' = Result("linear_correction", t, 0, TRUE, NoLabel,
                                 <<>>, NextId)

-----------------------------------------------------------------------------
(* numpy: the array from_m3 reshapes *)

\* an n-dimensional view of a block of memory: the element at index idx is at
\* offset sum(idx[d] * strides[d]); indexes and offsets count from 0
View(shape, strides) == [shape |-> shape, strides |-> strides]

\* ds.ReadAsArray(): a C-contiguous array of shape (bands, rows, columns)
ReadAsArray(W, H, B) == View(<<B, H, W>>, <<H * W, W, 1>>)

\* the cell of the raster at memory offset k; every cell is different, so a
\* cell tells which (band, row, column) it came from
RasterCell(k) == Num(k + 1)

\* a.swapaxes(0, 2): the same memory, first and last axis exchanged
SwapAxes02(a) ==
    View(<<a.shape[3], a.shape[2], a.shape[1]>>,
         <<a.strides[3], a.strides[2], a.strides[1]>>)

\* numpy's contiguity flags; an axis of length 1 does not count
CContiguous(a) ==
    /\ a.shape[3] = 1 \/ a.strides[3] = 1
    /\ a.shape[2] = 1 \/ a.strides[2] = a.shape[3]
    /\ a.shape[1] = 1 \/ a.strides[1] = a.shape[3] * a.shape[2]

FContiguous(a) ==
    /\ a.shape[1] = 1 \/ a.strides[1] = 1
    /\ a.shape[2] = 1 \/ a.strides[2] = a.shape[1]
    /\ a.shape[3] = 1 \/ a.strides[3] = a.shape[1] * a.shape[2]

\* order "A": Fortran index order if the array is Fortran contiguous in
\* memory (and not C contiguous), C order otherwise
OrderA(a) == IF FContiguous(a) /\ ~CContiguous(a) THEN "F" ELSE "C"

\* the index of the k-th element of a 3-d array in the given index order
Unravel(shape, order, k) ==
    IF order = "F"
    THEN <<k % shape[1], (k \div shape[1]) % shape[2],
           k \div (shape[1] * shape[2])>>
    ELSE <<k \div (shape[2] * shape[3]), (k \div shape[3]) % shape[2],
           k % shape[3]>>

\* the position in element order of cell (i, j) of an (n, m) array
Ravel2(n, m, order, i, j) == IF order = "F" THEN i + n * j ELSE i * m + j

OffsetOf(a, idx) ==
    idx[1] * a.strides[1] + idx[2] * a.strides[2] + idx[3] * a.strides[3]

\* np.reshape(a, (-1, a.shape[-1]), order="A"): rows and columns count from 1
\* in the result, as everywhere in a frame
ReshapeA(a) ==
    LET m == a.shape[3]
        n == a.shape[1] * a.shape[2]
        o == OrderA(a)
    IN  [i \in 1..n |-> [j \in 1..m |->
            RasterCell(OffsetOf(a, Unravel(a.shape, o, Ravel2(n, m, o, i - 1, j - 1))))]]

-----------------------------------------------------------------------------
(* pandas: merge and sort_index *)

\* lexicographic order of row keys
RECURSIVE KeyLess(_, _)
KeyLess(a, b) ==
    IF a = <<>> \/ b = <<>> THEN a = <<>> /\ b # <<>>
    ELSE \/ Head(a) < Head(b)
         \/ Head(a) = Head(b) /\ KeyLess(Tail(a), Tail(b))

\* left.merge(right, left_index=True, right_index=True): the rows of left whose
\* key right has, with right's columns appended
MergeOnIndex(l, r) ==
    LET keep == SelectSeq([i \in DOMAIN l.index |-> i],
                          LAMBDA i : RowPos(r.index, l.index[i]) # 0)
    IN  Frame(l.columns \o r.columns,
              [k \in DOMAIN keep |-> l.index[keep[k]]], l.nlevels,
              [k \in DOMAIN keep |->
                  l.data[keep[k]] \o r.data[RowPos(r.index, l.index[keep[k]])]])

\* frame.sort_index(): the rows in ascending order of their keys
SortIndex(f) ==
    LET perm == SortSeq([i \in DOMAIN f.index |-> i],
                        LAMBDA i, j : KeyLess(f.index[i], f.index[j]))
    IN  Frame(f.columns, [k \in DOMAIN perm |-> f.index[perm[k]]], f.nlevels,
              [k \in DOMAIN perm |-> f.data[perm[k]]])

\* super().__init__(*args): pd.DataFrame(data), or pd.DataFrame(data, index,
\* columns) when two more positional arguments follow the data
DataFrameInit(args) ==
    IF Len(args) = 1 THEN args[1]
    ELSE ReindexFrame(args[1], args[2], args[3])

\* reindexing a MultiIndex frame on plain labels: pandas either raises or
\* builds the frame, depending on its version
DataFrameInitRaises(args) ==
    IF Len(args) = 1 THEN {FALSE}
    ELSE IF args[1].nlevels >= 2 THEN {TRUE, FALSE} ELSE {FALSE}

-----------------------------------------------------------------------------
(* Spectra.from_m3 *)

\* what the external parser returns for a cube of B bands: the band
\* wavelengths, and the scene metadata (a dict of scalars)
M3Wavelengths(B) == [b \in 1..B |-> WL(70000 + 5000 * (b - 1))]
M3MetaKeys == <<MD(2), MD(1)>>
M3MetaVals == <<Num(5), Num(6)>>

\* coords = [(i % XSize, i // XSize) for i in range(XSize * YSize)]
Coords(W, H) == [i \in 1..(W * H) |-> <<(i - 1) % W, (i - 1) \div W>>]

\* m3_array after swapaxes and reshape
M3Array(W, H, B) == ReshapeA(SwapAxes02(ReadAsArray(W, H, B)))

\* m3_df.merge(meta_df, ...) then sort_index(inplace=True)
M3SpectraDf(W, H, B) ==
    LET index == Coords(W, H)
        m3_df == Frame(M3Wavelengths(B), index, 2, M3Array(W, H, B))
        meta_df == Frame(M3MetaKeys, index, 2,
                         [i \in DOMAIN index |-> M3MetaVals])
    IN  SortIndex(MergeOnIndex(m3_df, meta_df))

\* the positional arguments of cls(spectra_df, wavelengths, metadata,
\* tolerance=tolerance): they all land in *args of __init__
M3Args(W, H, B) ==
    <<M3SpectraDf(W, H, B),
      [b \in 1..B |-> <<M3Wavelengths(B)[b].val>>],
      M3MetaKeys>>

M3Tol(tol) == IF tol = NoArg THEN M3DefaultTol ELSE tol

FromM3(W, H, B, tol) ==
    /\ RoomForRoot
    /\ \E raises \in DataFrameInitRaises(M3Args(W, H, B)) :
          IF raises
          THEN /\ res' = Result("from_m3", 0, 0, FALSE, NoLabel, <<>>, 0)
               /\ UNCHANGED <<tables, indexers, ghost>>
          ELSE /\ Alloc(SpectraInit(DataFrameInit(M3Args(W, H, B)), <<>>, <<>>,
                                    NextId),
                        NewIndexer(NextId, M3Tol(tol)),
                        Made("from_m3", 0, tol, M3Tol(tol), NoSnap,
                             [W |-> W, H |-> H, B |-> B]))
               /\ res' = Result("from_m3", 0, 0, TRUE, NoLabel, <<>>, NextId)

-----------------------------------------------------------------------------
(* Spectra.from_spectral_profiler *)

\* what the external parser returns, already pivoted by to_frame, unstack,
\* transpose and swaplevel: one row per (minor, id), one column per wavelength
ProfileDf ==
    Frame(<<WL(70000), WL(75049)>>, <<<<0, 1>>, <<0, 2>>>>, 2,
          <<<<Num(3), Num(4)>>, <<Num(2), Num(6)>>>>)

\* geo_data.ancillary_data: one row per id
ProfileMeta ==
    Frame(<<MD(1)>>, <<<<1>>, <<2>>>>, 1, <<<<Num(8)>>, <<Num(9)>>>>)

\* df.reset_index().merge(meta.reset_index(), on='id') and
\* set_index(['minor', 'id']): the rows of df whose id meta has, with meta's
\* columns appended
MergeOnId(df, meta) ==
    LET keep == SelectSeq([i \in DOMAIN df.index |-> i],
                          LAMBDA i : RowPos(meta.index, <<df.index[i][2]>>) # 0)
    IN  Frame(df.columns \o meta.columns,
              [k \in DOMAIN keep |-> df.index[keep[k]]], 2,
              [k \in DOMAIN keep |->
                  df.data[keep[k]]
                  \o meta.data[RowPos(meta.index, <<df.index[keep[k]][2]>>)]])

ProfilerTol(tol) == IF tol = NoArg THEN ProfilerDefaultTol ELSE tol

FromSpectralProfiler(tol) ==
    /\ RoomForRoot
    /\ Alloc(SpectraInit(MergeOnId(ProfileDf, ProfileMeta), ProfileDf.columns,
                         <<>>, NextId),
             NewIndexer(NextId, ProfilerTol(tol)),
             Made("from_spectral_profiler", 0, tol, ProfilerTol(tol), NoSnap,
                  <<>>))
    /\ res' = Result("from_spectral_profiler", 0, 0, TRUE, NoLabel, <<>>, NextId)

-----------------------------------------------------------------------------
(* The tables of the main specification *)

FrameA ==
    Frame(<<WL(70000), WL(75000), WL(80000), MD(1)>>, <<<<1>>>>, 1,
          <<<<Num(10), Num(12), Num(9), Num(7)>>>>)

FrameB ==
    Frame(<<MD(2), WL(75049), WL(75000), MD(1)>>, <<<<0, 0>>, <<1, 0>>>>, 2,
          <<<<Num(1), Num(4), Num(2), Num(5)>>,
            <<Num(1), Num(3), Num(3), Num(6)>>>>)

\* the arguments a caller passes for a frame: its real-valued column labels as
\* wavelengths, and either no metadata or its other column labels
WlOf(f) == SelectSeq(f.columns, LAMBDA c : c.kind = "wl")
MdOf(f) == SelectSeq(f.columns, LAMBDA c : c.kind = "md")

\* the constructor calls: FrameA with and without a tolerance and without a
\* metadata argument, FrameB with both
Constructions ==
    {<<FrameA, <<>>, NoArg>>, <<FrameA, <<>>, 100>>,
     <<FrameB, MdOf(FrameB), 100>>}
LoaderTolArgs == {NoArg, 10}
SetVals == {0}
Keys == {75030, 75050, 76000}

Init ==
    /\ tables = <<>>
    /\ indexers = <<>>
    /\ ghost = <<>>
    /\ res = Result("none", 0, 0, TRUE, NoLabel, <<>>, 0)

Next ==
    \/ \E c \in Constructions : Construct(c[1], WlOf(c[1]), c[2], c[3])
    \/ \E tol \in LoaderTolArgs : FromM3(MaxDim, 1, MaxDim, tol)
    \/ \E tol \in LoaderTolArgs : FromSpectralProfiler(tol)
    \/ \E t \in DOMAIN tables, r \in Keys : GetItem(t, r)
    \/ \E t \in DOMAIN tables : GetSpectra(t)
    \/ \E t \in DOMAIN tables : GetMeta(t)
    \/ \E t \in DOMAIN tables : LinearCorrection(t)
    \/ \E t \in DOMAIN tables, v \in SetVals : SetTolerance(t, v)

Spec == Init /\ [][Next]_vars

-----------------------------------------------------------------------------
(* The same program with reads of .tolerance and two values to assign to it *)

MoreSetVals == {0, 100}

NextTol ==
    \/ Next
    \/ \E t \in DOMAIN tables : ReadTolerance(t)
    \/ \E t \in DOMAIN tables, v \in MoreSetVals : SetTolerance(t, v)

SpecTol == Init /\ [][NextTol]_vars

-----------------------------------------------------------------------------
(* from_m3 over every raster shape within the bound *)

NextM3 ==
    \/ \E W \in 1..MaxDim, H \in 1..MaxDim, B \in 1..MaxDim,
          tol \in LoaderTolArgs : FromM3(W, H, B, tol)
    \/ \E t \in DOMAIN tables : GetSpectra(t)
    \/ \E t \in DOMAIN tables : GetMeta(t)
    \/ \E t \in DOMAIN tables : ReadTolerance(t)

SpecM3 == Init /\ [][NextM3]_vars

-----------------------------------------------------------------------------
(* linear_correction over every small table: any order of up to three      *)
(* wavelengths, two rows of cells between 0 and MaxVal                      *)

LinWls == {70000, 75000, 80000}

\* the sequences without repetition over a set
Orderings(S) ==
    UNION {{s \in [1..n -> S] : \A i, j \in 1..n : i # j => s[i] # s[j]} :
             n \in 0..Cardinality(S)}

Reverse(s) == [i \in DOMAIN s |-> s[Len(s) + 1 - i]]

\* a frame with the wavelength columns wv, one named column after them, and
\* two rows: the cells row, and the same cells in reverse order
LinFrame(wv, row) ==
    Frame(WLs(wv) \o <<MD(1)>>, <<<<1>>, <<2>>>>, 1,
          <<Nums(row) \o <<Num(7)>>,
            Nums(Reverse(row)) \o <<Num(8)>>>>)

InitLin ==
    \E wv \in Orderings(LinWls) :
      \E row \in [DOMAIN wv -> 0..MaxVal] :
        /\ tables = <<SpectraInit(LinFrame(wv, row), WLs(wv), <<>>, 1)>>
        /\ indexers = <<NewIndexer(1, 100)>>
        /\ ghost = <<Made("init", 0, 100, 100, NoSnap, [md |-> <<>>])>>
        /\ res = Result("init", 1, 0, TRUE, NoLabel, <<>>, 1)

NextLin == \E t \in DOMAIN tables : LinearCorrection(t)

SpecLin == InitLin /\ [][NextLin]_vars

-----------------------------------------------------------------------------
(* What the claims speak of *)

\* the tolerance a caller reads off table t
TolOf(t) == ReadTol(indexers[tables[t].get])

\* the positions of the wavelength (real-valued) columns of a table
WlCols(tb) == {i \in DOMAIN tb.columns : tb.columns[i].kind = "wl"}

ColumnAt(tb, i) == [r \in DOMAIN tb.data |-> tb.data[r][i]]

\* the last call was table[key] and returned column i of table tb
Returned(tb, i) ==
    /\ res.ok
    /\ res.label = tb.columns[i]
    /\ res.vals = ColumnAt(tb, i)

\* the wavelength columns of tb within tol of the request r
Within(tb, r, tol) ==
    {i \in WlCols(tb) : Abs(tb.columns[i].val - r) <= tol}

\* table t was built by the constructor without a tolerance argument and its
\* tolerance was never assigned
NeverSet(t) ==
    /\ ghost[t].op = "init"
    /\ ghost[t].tolArg = NoArg
    /\ ~ghost[t].assigned

IsView(t) == ghost[t].op \in {"spectra", "meta"}

-----------------------------------------------------------------------------
\* C1 (as stated): for every wavelength label w stored as a column of the
\* table and every request w + e, table[w + e] returns the column stored under
\* w when |e| <= tolerance and fails with a lookup error when |e| > tolerance.
C1_Original ==
    res.op = "getitem" =>
        LET tb == tables[res.tab]
            tol == TolOf(res.tab)
        IN  \A i \in WlCols(tb) :
              /\ Abs(res.key - tb.columns[i].val) <= tol => Returned(tb, i)
              /\ Abs(res.key - tb.columns[i].val) > tol => ~res.ok

\* C1 (amended): table[w + e] returns the column stored under w when w is the
\* only stored wavelength label within the tolerance of the request, and fails
\* with a lookup error when no stored wavelength label lies within the
\* tolerance of the request; for a single-level row index (key of two parts)
\* and for a composite one (key of three parts) alike.
C1_Amended ==
    res.op = "getitem" =>
        LET tb == tables[res.tab]
            near == Within(tb, res.key, TolOf(res.tab))
        IN  \A i \in WlCols(tb) :
              /\ near = {i} => Returned(tb, i)
              /\ near = {} => ~res.ok

\* an inexact request answered on a table with a composite row index
C1_Witness ==
    /\ res.op = "getitem"
    /\ res.ok
    /\ IsMultiIndex(tables[res.tab])
    /\ res.label.val # res.key

\* C2: reading .tolerance gives 0.5 on a table built without a tolerance
\* argument and never assigned, and otherwise the value most recently stored
\* on that table by construction or assignment.
C2_Claim ==
    res.op = "tolerance" =>
        res.key = IF NeverSet(res.tab) THEN GetterDefaultTol
                  ELSE ghost[res.tab].stored

\* C3: the table from_m3 returns has the band wavelengths as its wavelength
\* set, the scene-metadata keys as its metadata set and the tolerance argument
\* (2 when omitted) as its tolerance; the table from_spectral_profiler returns
\* has the spectral columns of the profile as its wavelength set and the
\* tolerance argument (1 when omitted) as its tolerance.
C3_Claim ==
    \A t \in DOMAIN tables :
        /\ (res.op = "from_m3" /\ res.new = t) =>
              /\ Range(tables[t].wavelengths) = Range(M3Wavelengths(ghost[t].inp.B))
              /\ Range(tables[t].metadata) = Range(M3MetaKeys)
              /\ TolOf(t) = IF ghost[t].tolArg = NoArg THEN M3DefaultTol
                            ELSE ghost[t].tolArg
        /\ (res.op = "from_spectral_profiler" /\ res.new = t) =>
              /\ Range(tables[t].wavelengths) = Range(ProfileDf.columns)
              /\ TolOf(t) = IF ghost[t].tolArg = NoArg THEN ProfilerDefaultTol
                            ELSE ghost[t].tolArg

\* C4 (as stated): a table returned by .spectra, .meta or linear_correction()
\* has the wavelength set, the metadata column set and the tolerance its
\* source had at the time of the call.
C4_Original ==
    \A t \in DOMAIN tables :
        ghost[t].src # 0 =>
            /\ Range(tables[t].wavelengths) = Range(ghost[t].snap.wavelengths)
            /\ Range(tables[t].metadata) = Range(ghost[t].snap.metadata)
            /\ (res.ok /\ res.new = t) => TolOf(t) = ghost[t].snap.tol

\* C4 (amended): a table returned by .spectra or .meta has the wavelength
\* set, the metadata column set and the tolerance its source had at the time
\* of the call; a table returned by linear_correction() has the wavelength set
\* and the tolerance its source had, and an empty metadata column set.
C4_Amended ==
    \A t \in DOMAIN tables :
        ghost[t].src # 0 =>
            /\ Range(tables[t].wavelengths) = Range(ghost[t].snap.wavelengths)
            /\ IF ghost[t].op = "linear_correction"
               THEN tables[t].metadata = <<>>
               ELSE Range(tables[t].metadata) = Range(ghost[t].snap.metadata)
            /\ (res.ok /\ res.new = t) => TolOf(t) = ghost[t].snap.tol

\* a view and a corrected table, both taken from tables with metadata columns
C4_Witness ==
    /\ \E t \in DOMAIN tables :
          ghost[t].op = "linear_correction" /\ ghost[t].snap.metadata # <<>>
    /\ \E t \in DOMAIN tables :
          IsView(t) /\ ghost[t].snap.metadata # <<>> /\ ghost[t].snap.tol # 0

C6_Claim ==
    (res.op \in {"spectra", "meta"} /\ res.ok) =>
        LET s == tables[res.tab]
            v == tables[res.new]
        IN  /\ v.index = s.index
            /\ res.op = "spectra" =>
                  /\ v.columns = s.wavelengths
                  /\ Range(v.columns) \subseteq Range(s.columns)
            /\ res.op = "meta" =>
                  Range(v.columns) = Range(s.columns) \ Range(s.wavelengths)

\* the cell of band b of the pixel in column x and row y of a cube of H rows
\* and W columns (all counted from 0)
Pixel(W, H, b, y, x) == RasterCell((b * H + y) * W + x)

\* the reshaped array of a W x H x B cube has W*H rows, and row i holds the
\* bands of pixel (i mod W, i div W), the key from_m3 gives that row
M3RowsArePixels(W, H, B) ==
    /\ Len(M3Array(W, H, B)) = W * H
    /\ \A i \in 1..(W * H), b \in 1..B :
          /\ Coords(W, H)[i] = <<(i - 1) % W, (i - 1) \div W>>
          /\ M3Array(W, H, B)[i][b] = Pixel(W, H, b - 1, (i - 1) \div W, (i - 1) % W)

\* frame f has one row per pixel, in ascending (x, y) order, the row keyed
\* (x, y) holding the spectrum of pixel (x, y) under the band wavelengths and
\* the scene metadata under the metadata keys
M3RowsSorted(f, W, H, B) ==
    /\ Range(f.index) = Range(Coords(W, H))
    /\ \A k, l \in DOMAIN f.index : k < l => KeyLess(f.index[k], f.index[l])
    /\ \A k \in DOMAIN f.index, b \in 1..B :
          /\ PosOf(f.columns, M3Wavelengths(B)[b]) # 0
          /\ f.data[k][PosOf(f.columns, M3Wavelengths(B)[b])]
                = Pixel(W, H, b - 1, f.index[k][2], f.index[k][1])
    /\ \A k \in DOMAIN f.index, m \in DOMAIN M3MetaKeys :
          /\ PosOf(f.columns, M3MetaKeys[m]) # 0
          /\ f.data[k][PosOf(f.columns, M3MetaKeys[m])] = M3MetaVals[m]

\* C7: in from_m3 the reshaped array has W*H rows, row i holding the bands of
\* pixel (i mod W, i div W); the returned table has its rows in ascending
\* (x, y) order, the row keyed (x, y) holding the spectrum of pixel (x, y), and
\* every scene-metadata column the same value in every row.
C7_Claim ==
    \A t \in DOMAIN tables :
        ghost[t].op = "from_m3" =>
            LET W == ghost[t].inp.W
                H == ghost[t].inp.H
                B == ghost[t].inp.B
            IN  /\ M3RowsArePixels(W, H, B)
                /\ M3RowsSorted(tables[t], W, H, B)

\* the part of C7 that precedes the construction of the returned table: the
\* reshaped array, and the merged and sorted frame handed to the constructor
M3FrameBeforeInit ==
    \A t \in DOMAIN tables :
        ghost[t].op = "from_m3" =>
            LET W == ghost[t].inp.W
                H == ghost[t].inp.H
                B == ghost[t].inp.B
            IN  /\ M3RowsArePixels(W, H, B)
                /\ M3RowsSorted(M3SpectraDf(W, H, B), W, H, B)

\* C8: after .tolerance is assigned v on a table, every later lookup on that
\* table matches with tolerance v: it returns a label within v of the request,
\* and it fails only when not exactly one label lies within v of the request.
C8_Claim ==
    (res.op = "getitem" /\ ghost[res.tab].assigned) =>
        LET v == ghost[res.tab].stored
            obj == ObjOf(tables[res.tab])
        IN  /\ res.ok => Abs(res.label.val - res.key) <= v
            /\ ~res.ok => Cardinality(Within(obj, res.key, v)) # 1

\* the spectrum of row r of a table snapshot, under its wavelength labels
SnapSpectrum(s, r) ==
    [i \in DOMAIN s.wavelengths |->
        s.data[r][PosOf(s.columns, s.wavelengths[i])]]

\* (wv[n] - wv[1]) times the value at wv[i] of the straight line through
\* (wv[1], ref[1]) and (wv[n], ref[n]), n the number of wavelengths
LineTimesSpan(wv, ref, i) ==
    FAdd(FMul(ref[1], Num(wv[Len(wv)].val - wv[1].val)),
         FMul(FSub(ref[Len(wv)], ref[1]), Num(wv[i].val - wv[1].val)))

RefTimesSpan(wv, ref, i) == FMul(ref[i], Num(wv[Len(wv)].val - wv[1].val))

\* every point of the row lies on that line
IsPerfectLine(wv, ref) ==
    \A i \in DOMAIN wv : RefTimesSpan(wv, ref, i) = LineTimesSpan(wv, ref, i)

\* the line exists (two different anchor wavelengths, finite anchor values)
\* and is not zero at wv[i]
LineDefinedAt(wv, ref, i) ==
    /\ wv[Len(wv)].val # wv[1].val
    /\ Finite(LineTimesSpan(wv, ref, i))
    /\ LineTimesSpan(wv, ref, i) # Num(0)

\* the corrected table keeps the rows, their order and the wavelength labels
SameRowsAndLabels(t) ==
    /\ tables[t].index = ghost[t].snap.index
    /\ Len(tables[t].data) = Len(ghost[t].snap.data)
    /\ tables[t].columns = ghost[t].snap.wavelengths
    /\ tables[t].wavelengths = ghost[t].snap.wavelengths

\* C9 (as stated): linear_correction() returns one corrected row per input
\* row, in the same order and over the same wavelength labels, each row being
\* the input spectrum divided by the straight line through its values at
\* position 0 and position n-1 of the wavelength sequence; a row that is
\* already such a line is corrected to 1.0 at every wavelength.
C9_Original ==
    \A t \in DOMAIN tables :
        ghost[t].op = "linear_correction" =>
            /\ SameRowsAndLabels(t)
            /\ \A r \in DOMAIN tables[t].data :
                  LET wv == ghost[t].snap.wavelengths
                      ref == SnapSpectrum(ghost[t].snap, r)
                      corr == tables[t].data[r]
                  IN  /\ \A i \in DOMAIN wv :
                            FMul(corr[i], LineTimesSpan(wv, ref, i))
                               = RefTimesSpan(wv, ref, i)
                      /\ IsPerfectLine(wv, ref) =>
                            \A i \in DOMAIN wv : corr[i] = One

\* C9 (amended): as stated wherever the line is defined and not zero: with a
\* single wavelength (both anchors the same point), or at a wavelength where
\* the line is zero, the corrected value is not a finite number; a row that is
\* already a line through two different anchors, not zero at any wavelength,
\* is corrected to 1.0 at every wavelength.
C9_Amended ==
    \A t \in DOMAIN tables :
        ghost[t].op = "linear_correction" =>
            /\ SameRowsAndLabels(t)
            /\ \A r \in DOMAIN tables[t].data :
                  LET wv == ghost[t].snap.wavelengths
                      ref == SnapSpectrum(ghost[t].snap, r)
                      corr == tables[t].data[r]
                  IN  /\ \A i \in DOMAIN wv :
                            IF LineDefinedAt(wv, ref, i)
                            THEN FMul(corr[i], LineTimesSpan(wv, ref, i))
                                    = RefTimesSpan(wv, ref, i)
                            ELSE ~Finite(corr[i])
                      /\ (IsPerfectLine(wv, ref)
                            /\ \A i \in DOMAIN wv : LineDefinedAt(wv, ref, i))
                         => \A i \in DOMAIN wv : corr[i] = One

\* a sloping line over wavelengths that are not in ascending order, corrected
\* to 1.0 everywhere, next to a row that is not a line
C9_Witness ==
    \E t \in DOMAIN tables :
        /\ ghost[t].op = "linear_correction"
        /\ LET wv == ghost[t].snap.wavelengths
               ref1 == SnapSpectrum(ghost[t].snap, 1)
               ref2 == SnapSpectrum(ghost[t].snap, 2)
           IN  /\ Len(wv) = 3
               /\ wv[1].val > wv[2].val
               /\ ref1[1] # ref1[3]
               /\ IsPerfectLine(wv, ref1)
               /\ \A i \in DOMAIN wv : tables[t].data[1][i] = One
               /\ ~IsPerfectLine(wv, ref2)
               /\ \A i \in DOMAIN wv : Finite(tables[t].data[2][i])

\* C10: assigning .tolerance on one table leaves the tolerance read from
\* every other table unchanged.
C10_Claim ==
    [][\A t, u \in DOMAIN tables :
          (t # u /\ res'.op = "set_tolerance" /\ res'.tab = t)
             => TolOf(u)' = TolOf(u)]_vars

====
